---- MODULE Spec2Model ----
(***************************************************************************)
(* Model of the Telegram ingestion client (src/src/telegram_scraper.py)    *)
(* and of the reader side of the lake files (src/src/data_loader.py).      *)
(*                                                                         *)
(* The main task runs main(): for every configured channel it runs         *)
(* scrape_channel and then save_to_json.  scrape_channel is a coroutine;   *)
(* pc names the await at which the task is suspended, and one action of    *)
(* the model is the code that runs from one await to the next.  Python     *)
(* values are tagged records, so that None, strings and objects can be     *)
(* compared with each other.                                               *)
(***************************************************************************)
EXTENDS Integers, Sequences, FiniteSets, TLC

(* ------------------------------ bounds --------------------------------- *)
\* how many of the configured channels a run scrapes
NumChannels == 2
\* how many messages the provider holds for a channel: NumMsgs in a run
\* that meets up to MaxFaults faults (raised errors, failed downloads), of
\* which up to MaxMidFaults hit an iteration that has started; LongMsgs in
\* a run that meets up to LongFaults faults
NumMsgs == 2
MaxFaults == 5
MaxMidFaults == 1
LongMsgs == 20
LongFaults == 0
\* the largest wait a rate-limit signal carries
MaxFloodWait == 2
\* how many times the loader is run on a lake file
MaxLoads == 2

(* -------------------------- program constants -------------------------- *)
max_retries == 5
backoff == 5
PaceEvery == 10
PaceSleep == 1
Limit == 100

\* a channel name is its sequence of tokens; a sigil is the token "@"
AllChannels == << <<"CheMed123">>, <<"lobelia4cosmetics">>, <<"tikvahpharma">> >>
TELEGRAM_CHANNELS == SubSeq(AllChannels, 1, NumChannels)

(* ---------------------------- Python values ---------------------------- *)
None == [tag |-> "None"]
Missing == [tag |-> "missing"]
Str(s) == [tag |-> "str", s |-> s]
Bool(b) == [tag |-> "bool", b |-> b]
Obj(o) == [tag |-> "object", o |-> o]
Num(n) == [tag |-> "int", n |-> n]
Date1 == [tag |-> "datetime", ymd |-> "2025-07-10", ts |-> 1752105600, iso |-> "2025-07-10T00:00:00"]
Photo == [tag |-> "MessageMediaPhoto"]
Document(mime) == [tag |-> "MessageMediaDocument", mime |-> mime]
Poll == [tag |-> "MessageMediaPoll"]

\* the shapes of message the provider holds
MsgKinds ==
  << [text |-> Str(<<"h", "i">>), date |-> Date1, media |-> Photo],
     [text |-> Str(<<"y", "o">>), date |-> Date1, media |-> None],
     [text |-> Str(<<" ">>),      date |-> Date1, media |-> Poll],
     [text |-> Str(<<"o", "k">>), date |-> None,  media |-> Document("video/mp4")],
     [text |-> None,              date |-> Date1, media |-> Document("image/png")],
     [text |-> Str(<<>>),         date |-> Date1, media |-> None],
     [text |-> Str(<<"p">>),      date |-> Date1, media |-> Poll] >>

\* message i of the j-th channel: its id is i, and the channels go through
\* the shapes one after the other
RawMessage(j, i) ==
  LET k == MsgKinds[(((j - 1) * NumMsgs + i - 1) % Len(MsgKinds)) + 1]
  IN  [id |-> i, text |-> k.text, date |-> k.date, media |-> k.media]

\* what iter_messages(entity, limit) yields for the j-th channel: at most
\* limit messages, in the provider's order
Min(a, b) == IF a < b THEN a ELSE b
IterMessages(j, n, limit) == [i \in 1..Min(n, limit) |-> RawMessage(j, i)]

(* --------------------------- pure functions ---------------------------- *)
\* channel_name.replace('@', ''): drops every sigil of the name
CleanName(c) == SelectSeq(c, LAMBDA t : t # "@")

IsSpace(ch) == ch \in {" ", "\t", "\n"}

RECURSIVE LStrip(_)
LStrip(s) == IF s # <<>> /\ IsSpace(Head(s)) THEN LStrip(Tail(s)) ELSE s

RECURSIVE RStrip(_)
RStrip(s) ==
  IF s # <<>> /\ IsSpace(s[Len(s)]) THEN RStrip(SubSeq(s, 1, Len(s) - 1)) ELSE s

Strip(s) == RStrip(LStrip(s))

\* Python truthiness of the values a message attribute takes
Truthy(v) ==
  CASE v.tag = "None" -> FALSE
    [] v.tag = "str" -> v.s # <<>>
    [] OTHER -> TRUE

IsDownloadable(media) == media.tag \in {"MessageMediaPhoto", "MessageMediaDocument"}

\* a media type that is never none
_get_media_type_other(media) ==
  IF media.tag = "MessageMediaPhoto" THEN Str("photo")
  ELSE IF media.tag = "MessageMediaDocument" THEN Str("document")
  ELSE Str("other")

\* lines 130-138
_get_media_type(media) ==
  IF ~Truthy(media) THEN None
  ELSE IF media.tag = "MessageMediaPhoto" THEN Str("photo")
  ELSE IF media.tag = "MessageMediaDocument" THEN Str("document")
  ELSE Str("other")

\* lines 72-86: the record built for a message
BuildMessageData(message, channel_name) ==
  [message_id   |-> message.id,
   channel_name |-> Str(CleanName(channel_name)),
   message_text |-> IF Truthy(message.text) THEN message.text ELSE Str(<<>>),
   message_date |-> IF Truthy(message.date) THEN Str(message.date.iso) ELSE None,
   has_media    |-> Bool(message.media.tag # "None"),
   media_type   |-> _get_media_type(message.media),
   scraped_at   |-> Str("now"),
   raw_data     |-> Obj("engagement"),
   media_path   |-> Missing]

\* MESSAGE_SCHEMA: the types of the required and optional properties
Validate(md) ==
  /\ md.message_id \in Int
  /\ md.channel_name.tag = "str"
  /\ md.message_text.tag = "str"
  /\ md.message_date.tag \in {"str", "None"}
  /\ md.has_media.tag = "bool"
  /\ md.media_type.tag \in {"str", "None"}
  /\ md.scraped_at.tag = "str"
  /\ md.raw_data.tag = "object"
  /\ md.media_path.tag \in {"str", "None", "missing"}

\* a filter that does not strip the text
IsEmptyTextUnstripped(md) == ~Truthy(md.message_text)

\* line 98: not message_data['message_text'].strip()
IsEmptyText(md) == ~Truthy(Str(Strip(md.message_text.s)))

\* lines 97-100 applied to a sequence of records
EmptyTextFilter(recs) == SelectSeq(recs, LAMBDA md : ~IsEmptyText(md))

\* lines 148-161: the extension of the media file
MimeHas(mime, part) ==
  CASE part = "image/jpeg" -> mime = "image/jpeg"
    [] part = "image/png" -> mime = "image/png"
    [] part = "video" -> mime \in {"video/mp4", "video/webm"}
    [] OTHER -> FALSE

MediaExt(media) ==
  IF media.tag = "MessageMediaPhoto" THEN ".jpg"
  ELSE IF MimeHas(media.mime, "image/jpeg") THEN ".jpg"
  ELSE IF MimeHas(media.mime, "image/png") THEN ".png"
  ELSE IF MimeHas(media.mime, "video") THEN ".mp4"
  ELSE ".bin"

\* lines 143-163: the path of the media file, or None when computing it
\* raises (message.date is None at line 162) and line 171 catches it
MediaPath(message, channel_name) ==
  LET date_str == IF Truthy(message.date) THEN message.date.ymd ELSE "unknown"
      media_dir == <<"data/raw/media", CleanName(channel_name), date_str>>
      ext == MediaExt(message.media)
  IN  IF ~Truthy(message.date) THEN None
      ELSE Str(<<media_dir, message.id, message.date.ts, ext>>)

(* -------------------------------- state -------------------------------- *)
VARIABLES
  pc,             \* where the main task is suspended
  feedLen,        \* how many messages the provider holds for a channel
  maxFaults,      \* how many faults the environment injects in this run
  maxMid,         \* how many of them hit an iteration that has started
  chanIdx,        \* main: index of the channel of the for loop
  retry_count,    \* scrape_channel locals
  messages_data,
  pos,            \* messages the iterator has yielded in this attempt
  message_count,
  cur,            \* message_data of the message whose media is downloading
  sleepFor,       \* seconds of the asyncio.sleep the task is suspended in
  media,          \* paths of the media files on disk
  lake,           \* lake file of every channel
  readerSaw,      \* what the loader's last read of a lake file returned
  telegram_messages,  \* the loader's table raw.telegram_messages
  attempts,       \* history: attempts started by this scrape (line 65)
  nTransient,     \* history: errors handled at line 122 by this scrape
  faults,         \* history: faults injected so far
  midFaults,      \* history: faults that hit an iteration that had started
  dlCalls,        \* history: client.download_media calls per channel, id
  handed,         \* history: the data save_to_json was called with
  outcome,        \* history: how the scrape of every channel ended
  scrapeLog,      \* history: channels scrape_channel was called for
  saveLog,        \* history: channels save_to_json was called for
  accepted,       \* history: records appended by this scrape, in order
  started,        \* history: client.start has returned in this scrape
  loadLog,        \* history: the lake files the loader was run on
  ev              \* history: what the last step did

vars == <<pc, feedLen, maxFaults, maxMid, chanIdx, retry_count, messages_data,
          pos, message_count, cur, sleepFor, media, lake, readerSaw,
          telegram_messages, attempts, nTransient, faults, midFaults, dlCalls,
          handed, outcome, scrapeLog, saveLog, accepted, started, loadLog, ev>>

Channels == {TELEGRAM_CHANNELS[i] : i \in 1..Len(TELEGRAM_CHANNELS)}
Ids == 1..(IF LongMsgs > NumMsgs THEN LongMsgs ELSE NumMsgs)
channel == TELEGRAM_CHANNELS[chanIdx]
feed == IterMessages(chanIdx, feedLen, Limit)

List(v) == [tag |-> "list", v |-> v]
Absent == [tag |-> "absent"]
File(recs, complete) == [tag |-> "file", recs |-> recs, complete |-> complete]
\* the lake file a run of an earlier hour of the same day left behind
OldFile == File(<<Obj("previous run")>>, TRUE)

SuspensionPoints == {"start", "entity", "iter", "media", "pace", "floodsleep", "backoff"}

\* the state in which scrape_channel is called for the j-th channel with
\* nothing scraped yet
InitFor(j) ==
  /\ pc = "call"
  /\ \/ feedLen = NumMsgs /\ maxFaults = MaxFaults /\ maxMid = MaxMidFaults
     \/ feedLen = LongMsgs /\ maxFaults = LongFaults /\ maxMid = LongFaults
  /\ chanIdx = j
  /\ retry_count = 0
  /\ messages_data = <<>>
  /\ pos = 0
  /\ message_count = 0
  /\ cur = None
  /\ sleepFor = 0
  /\ media = {}
  /\ \E rerun \in BOOLEAN : lake = [c \in Channels |-> IF rerun THEN OldFile ELSE Absent]
  /\ readerSaw = "nothing"
  /\ attempts = 0
  /\ nTransient = 0
  /\ faults = 0
  /\ midFaults = 0
  /\ dlCalls = [c \in Channels |-> [i \in Ids |-> 0]]
  /\ handed = [c \in Channels |-> None]
  /\ outcome = [c \in Channels |-> "running"]
  /\ scrapeLog = <<>>
  /\ saveLog = <<>>
  /\ accepted = <<>>
  /\ started = FALSE
  /\ telegram_messages = {}
  /\ loadLog = <<>>
  /\ ev = <<"init", "">>

\* main starts with the first channel of the list
Init == InitFor(1)

(* ----------------------- scrape_channel: the loop ----------------------- *)
\* the exceptions an await of the outer try raises
FloodErrors == {[kind |-> "FloodWaitError", seconds |-> n] : n \in 1..MaxFloodWait}
Transient == [kind |-> "ConnectionError"]
Private == [kind |-> "ChannelPrivateError"]
NotOccupied == [kind |-> "UsernameNotOccupiedError"]

\* the loop stopping one attempt early
WhileCheckShort(rc) == rc < max_retries - 1

\* line 63: the condition of the while loop
WhileCheck(rc) == rc < max_retries

\* a loop that raises the last error instead of returning
WhileStepRaises(rc) ==
  IF WhileCheck(rc)
  THEN /\ pc' = "start"
       /\ attempts' = attempts + 1
       /\ outcome' = outcome
  ELSE /\ pc' = "raised"
       /\ attempts' = attempts
       /\ outcome' = [outcome EXCEPT ![channel] = "exhausted"]

\* line 63, reached with retry count rc: the next attempt starts (line 65)
\* or the loop ends and line 128 returns
WhileStep(rc) ==
  IF WhileCheck(rc)
  THEN /\ pc' = "start"
       /\ attempts' = attempts + 1
       /\ outcome' = outcome
  ELSE /\ pc' = "returned"
       /\ attempts' = attempts
       /\ outcome' = [outcome EXCEPT ![channel] = "exhausted"]

\* a rate-limit wait with the backoff of the next retry added to it
OnFloodWaitPlusBackoff(e) ==
  /\ pc' = "floodsleep"
  /\ sleepFor' = e.seconds + backoff * (retry_count + 1)
  /\ UNCHANGED <<retry_count, attempts, nTransient, outcome>>

\* lines 111-114: the rate-limit signal; the task sleeps e.seconds
OnFloodWait(e) ==
  /\ pc' = "floodsleep"
  /\ sleepFor' = e.seconds
  /\ UNCHANGED <<retry_count, attempts, nTransient, outcome>>

\* a backoff that does not grow with the retry counter
OnExceptionFlat(e) ==
  /\ retry_count' = retry_count + 1
  /\ nTransient' = nTransient + 1
  /\ IF retry_count' < max_retries
     THEN /\ pc' = "backoff"
          /\ sleepFor' = backoff
          /\ UNCHANGED <<attempts, outcome>>
     ELSE /\ sleepFor' = sleepFor
          /\ WhileStep(retry_count')

\* lines 122-127: any other Exception
OnException(e) ==
  /\ retry_count' = retry_count + 1
  /\ nTransient' = nTransient + 1
  /\ IF retry_count' < max_retries
     THEN /\ pc' = "backoff"
          /\ sleepFor' = backoff * retry_count'
          /\ UNCHANGED <<attempts, outcome>>
     ELSE /\ sleepFor' = sleepFor
          /\ WhileStep(retry_count')

\* a permanent error taken for a retryable one
OnPermanentRetried(e) == OnException(e)

\* lines 116-121: ChannelPrivateError, UsernameNotOccupiedError: break
OnPermanent(e) ==
  /\ pc' = "returned"
  /\ outcome' = [outcome EXCEPT ![channel] = "permanent"]
  /\ UNCHANGED <<retry_count, sleepFor, attempts, nTransient>>

\* the except clause of the outer try that matches e
Handle(e) ==
  CASE e.kind = "FloodWaitError" -> OnFloodWait(e)
    [] e.kind \in {"ChannelPrivateError", "UsernameNotOccupiedError"} -> OnPermanent(e)
    [] OTHER -> OnException(e)

\* an await of the outer try raises e: the attempt ends in a handler
Raise(e) ==
  /\ faults < maxFaults
  /\ faults' = faults + 1
  /\ IF pc = "iter"
     THEN midFaults < maxMid /\ midFaults' = midFaults + 1
     ELSE midFaults' = midFaults
  /\ Handle(e)
  /\ ev' = IF e.kind = "FloodWaitError" THEN <<e.kind, pc, e.seconds>>
            ELSE <<e.kind, pc>>
  /\ pos' = 0             \* pos, message_count: dead until line 69 resets them
  /\ message_count' = 0
  /\ cur' = None
  /\ UNCHANGED <<feedLen, maxFaults, maxMid, chanIdx, messages_data, media,
                 lake, readerSaw, telegram_messages, loadLog, started,
                 dlCalls, handed, scrapeLog, saveLog, accepted>>

\* line 201: main calls scrape_channel for the next channel (lines 58-65)
Call ==
  /\ pc = "call"
  /\ chanIdx <= Len(TELEGRAM_CHANNELS)
  /\ messages_data' = <<>>
  /\ retry_count' = 0
  /\ nTransient' = 0
  /\ accepted' = <<>>
  /\ started' = FALSE
  /\ scrapeLog' = Append(scrapeLog, channel)
  /\ attempts' = IF WhileCheck(0) THEN 1 ELSE 0
  /\ pc' = IF WhileCheck(0) THEN "start" ELSE "returned"
  /\ ev' = <<"call", "">>
  /\ UNCHANGED <<feedLen, maxFaults, maxMid, chanIdx, pos, message_count, cur,
                 sleepFor, media, lake, readerSaw, telegram_messages, loadLog,
                 faults, midFaults, dlCalls, handed, outcome, saveLog>>

\* line 66: await client.start
ClientStart ==
  /\ pc = "start"
  /\ \/ /\ pc' = "entity"
        /\ started' = TRUE
        /\ ev' = <<"started", "">>
        /\ UNCHANGED <<feedLen, maxFaults, maxMid, chanIdx, retry_count,
                       messages_data, pos, message_count, cur, sleepFor,
                       media, lake, readerSaw, telegram_messages, loadLog,
                       attempts, nTransient, faults, midFaults,
                       dlCalls, handed, outcome, scrapeLog, saveLog,
                       accepted>>
     \/ \E e \in FloodErrors \cup {Transient} : Raise(e)

\* lines 67-70: await client.get_entity, then the iterator is created
GetEntity ==
  /\ pc = "entity"
  /\ \/ /\ pc' = "iter"
        /\ pos' = 0
        /\ message_count' = 0
        /\ ev' = <<"resolved", "">>
        /\ UNCHANGED <<feedLen, maxFaults, maxMid, chanIdx, retry_count,
                       messages_data, cur, sleepFor, media, lake, readerSaw,
                       telegram_messages, loadLog, started, attempts,
                       nTransient, faults, midFaults, dlCalls, handed,
                       outcome, scrapeLog, saveLog, accepted>>
     \/ \E e \in FloodErrors \cup {Transient, Private, NotOccupied} : Raise(e)

(* ------------------- scrape_channel: one message ----------------------- *)
\* a failed download that leaves the record without the media_path key
OnDownloadErrorUnset(md) == md

\* lines 171-173, 90: _download_media catches the exception and returns
\* None, which becomes the media_path of the record
OnDownloadError(md) == [md EXCEPT !.media_path = None]

\* a fetch that does not look at the disk
PathNeverExists(path, files) == FALSE

\* line 165: os.path.exists(file_path)
PathExists(path, files) == path \in files

\* a list that is started again by every accepted record
ReplaceRecords(msgs, md) == <<md>>

\* line 101: messages_data.append(message_data)
AppendRecord(msgs, md) == Append(msgs, md)

\* lines 91-105: validation, the empty-text filter, the append and the pacing
\* of the message whose record is md; step names the step that calls it
Finish(md, step) ==
  IF ~Validate(md)
  THEN /\ ev' = <<step, "invalid">>
       /\ pc' = "iter"
       /\ UNCHANGED <<messages_data, accepted, message_count, sleepFor>>
  ELSE IF IsEmptyText(md)
  THEN /\ ev' = <<step, "empty">>
       /\ pc' = "iter"
       /\ UNCHANGED <<messages_data, accepted, message_count, sleepFor>>
  ELSE /\ ev' = <<step, "appended">>
       /\ messages_data' = AppendRecord(messages_data, md)
       /\ accepted' = Append(accepted, md)
       /\ message_count' = message_count + 1
       /\ IF message_count' % PaceEvery = 0
          THEN pc' = "pace" /\ sleepFor' = PaceSleep
          ELSE pc' = "iter" /\ sleepFor' = sleepFor

\* an exception of a message that reaches the handler of the attempt
OnMsgErrorEscapes(message) ==
  /\ ev' = <<"msg_error", "skipped">>
  /\ OnException(Transient)
  /\ UNCHANGED <<messages_data, accepted, message_count>>

\* lines 106-108: an exception of the inner try: the message is skipped
OnMsgError(message) ==
  /\ ev' = <<"msg_error", "skipped">>
  /\ pc' = "iter"
  /\ UNCHANGED <<retry_count, messages_data, accepted, message_count, sleepFor,
                 attempts, nTransient, outcome>>

\* lines 70-105: the iterator yields the next message, and the body of the
\* loop runs up to its next await
IterYield ==
  /\ pc = "iter"
  /\ pos < Len(feed)
  /\ pos' = pos + 1
  /\ LET message == feed[pos + 1]
         md == BuildMessageData(message, channel)
         path == MediaPath(message, channel)
     IN  \/ /\ faults < maxFaults /\ midFaults < maxMid
            /\ faults' = faults + 1
            /\ midFaults' = midFaults + 1
            /\ OnMsgError(message)
            /\ UNCHANGED <<cur, dlCalls>>
         \/ /\ Truthy(message.media) /\ IsDownloadable(message.media)
            /\ path # None
            /\ ~PathExists(path, media)
            \* line 168: the task is suspended in client.download_media
            /\ pc' = "media"
            /\ cur' = md
            /\ dlCalls' = [dlCalls EXCEPT ![channel][message.id] = @ + 1]
            /\ ev' = <<"yield", "download">>
            /\ UNCHANGED <<messages_data, accepted, message_count, sleepFor,
                           faults, midFaults, retry_count, attempts, nTransient,
                           outcome>>
         \/ /\ Truthy(message.media) /\ IsDownloadable(message.media)
            /\ path # None
            /\ PathExists(path, media)
            \* line 167: the file is on disk
            /\ Finish([md EXCEPT !.media_path = path], "exists")
            /\ UNCHANGED <<cur, dlCalls, faults, midFaults, retry_count,
                           attempts, nTransient, outcome>>
         \/ /\ Truthy(message.media) /\ IsDownloadable(message.media)
            /\ path = None
            \* line 173: computing the path raised
            /\ Finish(OnDownloadError(md), "nopath")
            /\ UNCHANGED <<cur, dlCalls, faults, midFaults, retry_count,
                           attempts, nTransient, outcome>>
         \/ /\ ~(Truthy(message.media) /\ IsDownloadable(message.media))
            /\ Finish(md, "yield")
            /\ UNCHANGED <<cur, dlCalls, faults, midFaults, retry_count,
                           attempts, nTransient, outcome>>
  /\ UNCHANGED <<feedLen, maxFaults, maxMid, chanIdx, media, lake, readerSaw,
                 telegram_messages, loadLog, started, handed, scrapeLog,
                 saveLog>>

\* lines 168-173 and 90-105: client.download_media returns or raises
DownloadDone ==
  /\ pc = "media"
  /\ LET path == MediaPath(feed[pos], channel)
     IN  \/ /\ media' = media \cup {path}
            /\ Finish([cur EXCEPT !.media_path = path], "downloaded")
            /\ UNCHANGED <<faults, midFaults>>
         \/ /\ faults < maxFaults /\ midFaults < maxMid
            /\ faults' = faults + 1
            /\ midFaults' = midFaults + 1
            /\ media' = media
            /\ Finish(OnDownloadError(cur), "download_failed")
  /\ cur' = None
  /\ UNCHANGED <<feedLen, maxFaults, maxMid, chanIdx, retry_count, pos, lake,
                 readerSaw, telegram_messages, loadLog, started, attempts,
                 nTransient, dlCalls, handed, outcome, scrapeLog, saveLog>>

\* line 105: the pacing sleep is over
PaceWake ==
  /\ pc = "pace"
  /\ pc' = "iter"
  /\ sleepFor' = 0
  /\ ev' = <<"woke", "pace">>
  /\ UNCHANGED <<feedLen, maxFaults, maxMid, chanIdx, retry_count,
                 messages_data, pos, message_count, cur, media, lake,
                 readerSaw, telegram_messages, loadLog, started, attempts,
                 nTransient, faults, midFaults, dlCalls, handed, outcome,
                 scrapeLog, saveLog, accepted>>

\* lines 70, 109-110, 128: the iterator is exhausted: break and return
IterEnd ==
  /\ pc = "iter"
  /\ pos = Len(feed)
  /\ pc' = "returned"
  /\ outcome' = [outcome EXCEPT ![channel] = "success"]
  /\ ev' = <<"iter_end", "">>
  /\ UNCHANGED <<feedLen, maxFaults, maxMid, chanIdx, retry_count,
                 messages_data, pos, message_count, cur, sleepFor, media,
                 lake, readerSaw, telegram_messages, loadLog, started,
                 attempts, nTransient, faults, midFaults, dlCalls, handed,
                 scrapeLog, saveLog, accepted>>

\* line 70: fetching the next message raises
IterRaise ==
  /\ pc = "iter"
  /\ \E e \in FloodErrors \cup {Transient, Private} : Raise(e)

\* a rate-limit sleep after which the retry counter is left as it is
FloodWakeUncounted ==
  /\ pc = "floodsleep"
  /\ sleepFor' = 0
  /\ retry_count' = retry_count
  /\ WhileStep(retry_count')
  /\ ev' = <<"woke", "floodsleep">>
  /\ UNCHANGED <<feedLen, maxFaults, maxMid, chanIdx, messages_data, pos,
                 message_count, cur, media, lake, readerSaw,
                 telegram_messages, loadLog, started, nTransient, faults,
                 midFaults, dlCalls, handed, scrapeLog, saveLog, accepted>>

\* lines 114-115, 63: the rate-limit sleep is over
FloodWake ==
  /\ pc = "floodsleep"
  /\ sleepFor' = 0
  /\ retry_count' = retry_count + 1
  /\ WhileStep(retry_count')
  /\ ev' = <<"woke", "floodsleep">>
  /\ UNCHANGED <<feedLen, maxFaults, maxMid, chanIdx, messages_data, pos,
                 message_count, cur, media, lake, readerSaw,
                 telegram_messages, loadLog, started, nTransient, faults,
                 midFaults, dlCalls, handed, scrapeLog, saveLog, accepted>>

\* lines 127, 63: the backoff sleep is over
BackoffWake ==
  /\ pc = "backoff"
  /\ sleepFor' = 0
  /\ WhileStep(retry_count)
  /\ ev' = <<"woke", "backoff">>
  /\ UNCHANGED <<feedLen, maxFaults, maxMid, chanIdx, retry_count,
                 messages_data, pos, message_count, cur, media, lake,
                 readerSaw, telegram_messages, loadLog, started, nTransient,
                 faults, midFaults, dlCalls, handed, scrapeLog, saveLog,
                 accepted>>

(* ------------------------- save_to_json, main -------------------------- *)
\* lines 202, 188-193: main calls save_to_json; open(filename, 'w') creates
\* or truncates the lake file of the channel
SaveOpen ==
  /\ pc = "returned"
  /\ pc' = "writing"
  /\ lake' = [lake EXCEPT ![channel] = File(<<>>, FALSE)]
  /\ handed' = [handed EXCEPT ![channel] = List(messages_data)]
  /\ saveLog' = Append(saveLog, channel)
  /\ ev' = <<"save", "open">>
  /\ UNCHANGED <<feedLen, maxFaults, maxMid, chanIdx, retry_count,
                 messages_data, pos, message_count, cur, sleepFor, media,
                 readerSaw, telegram_messages, loadLog, started, attempts,
                 nTransient, faults, midFaults, dlCalls, outcome, scrapeLog,
                 accepted>>

\* line 194: json.dump writes the next record into the file
SaveWrite ==
  /\ pc = "writing"
  /\ Len(lake[channel].recs) < Len(messages_data)
  /\ lake' = [lake EXCEPT ![channel].recs =
                Append(@, messages_data[Len(lake[channel].recs) + 1])]
  /\ ev' = <<"save", "write">>
  /\ UNCHANGED <<pc, feedLen, maxFaults, maxMid, chanIdx, retry_count,
                 messages_data, pos, message_count, cur, sleepFor, media,
                 readerSaw, telegram_messages, loadLog, started, attempts,
                 nTransient, faults, midFaults, dlCalls, handed, outcome,
                 scrapeLog, saveLog, accepted>>

\* lines 194-195, 199: the closing bracket is written, the file is closed and
\* the for loop goes on to the next channel
SaveClose ==
  /\ pc = "writing"
  /\ Len(lake[channel].recs) = Len(messages_data)
  /\ lake' = [lake EXCEPT ![channel].complete = TRUE]
  /\ chanIdx' = chanIdx + 1
  /\ pc' = "call"
  /\ ev' = <<"save", "close">>
  /\ UNCHANGED <<feedLen, maxFaults, maxMid, retry_count, messages_data, pos,
                 message_count, cur, sleepFor, media, readerSaw,
                 telegram_messages, loadLog, started, attempts, nTransient,
                 faults, midFaults, dlCalls, handed, outcome, scrapeLog,
                 saveLog, accepted>>

\* line 203: the for loop is over: disconnect, main returns
Disconnect ==
  /\ pc = "call"
  /\ chanIdx > Len(TELEGRAM_CHANNELS)
  /\ pc' = "done"
  /\ ev' = <<"disconnect", "">>
  /\ UNCHANGED <<feedLen, maxFaults, maxMid, chanIdx, retry_count,
                 messages_data, pos, message_count, cur, sleepFor, media,
                 lake, readerSaw, telegram_messages, loadLog, started,
                 attempts, nTransient, faults, midFaults, dlCalls, handed,
                 outcome, scrapeLog, saveLog, accepted>>

(* ----------------------------- the reader ------------------------------ *)
\* what a read of the lake file of channel c returns: no file, the whole
\* file of the previous run, the whole data of this run, or anything else
ReadOf(c) ==
  LET f == lake[c]
  IN  IF f.tag = "absent" THEN "absent"
      ELSE IF handed[c] = None
      THEN (IF f = OldFile THEN "previous" ELSE "torn")
      ELSE IF f.complete /\ f.recs = handed[c].v THEN "new" ELSE "torn"

\* data_loader.py lines 88-90: the loader, another process, opens a lake
\* file and reads it
ReaderRead ==
  /\ \E c \in Channels : readerSaw' = ReadOf(c)
  /\ ev' = <<"read", "">>
  /\ UNCHANGED <<pc, feedLen, maxFaults, maxMid, chanIdx, retry_count,
                 messages_data, pos, message_count, cur, sleepFor, media,
                 lake, attempts, nTransient, faults, midFaults, dlCalls,
                 handed, outcome, scrapeLog, saveLog, accepted,
                 telegram_messages, loadLog, started>>

(* ----------------------------- the loader ------------------------------ *)
\* record.get(key)
Get(record, key) == IF key \in DOMAIN record THEN record[key] ELSE None

\* a or b
PyOr(a, b) == IF Truthy(a) THEN a ELSE b

\* data_loader.py lines 95-96, 109-111: the row inserted for a record; the
\* insert gives no id, so the column takes the next value of its sequence
RowOf(record, id) ==
  [id         |-> id,
   message_id |-> IF "message_id" \in DOMAIN record /\ record.message_id # 0
                  THEN Num(record.message_id)
                  ELSE Get(record, "id"),
   channel    |-> PyOr(Get(record, "channel"), Get(record, "channel_name"))]

\* the next value of the sequence of the SERIAL column: no row is ever
\* deleted and every insert takes one value
NextSerial(tbl) == Cardinality(tbl) + 1

\* data_loader.py lines 102-107: INSERT ... ON CONFLICT DO NOTHING; the only
\* unique constraint of the table is the primary key id (lines 66-75)
Insert(tbl, row) ==
  IF \E r \in tbl : r.id = row.id THEN tbl ELSE tbl \cup {row}

\* data_loader.py lines 93-118: the loop over the records and the commit
RECURSIVE InsertAll(_, _)
InsertAll(tbl, recs) ==
  IF recs = <<>> THEN tbl
  ELSE InsertAll(Insert(tbl, RowOf(Head(recs), NextSerial(tbl))), Tail(recs))

\* data_loader.py lines 88-121: load_json_to_postgres on the lake file of a
\* channel; a missing file or a file that is not whole JSON raises at lines
\* 89-90, and line 120 catches it
LoadFile ==
  /\ Len(loadLog) < MaxLoads
  /\ \E c \in Channels :
       LET f == lake[c]
       IN  /\ loadLog' = Append(loadLog, <<c, f>>)
           /\ telegram_messages' =
                IF f.tag = "file" /\ f.complete
                THEN InsertAll(telegram_messages, f.recs)
                ELSE telegram_messages
  /\ ev' = <<"load", "">>
  /\ UNCHANGED <<pc, feedLen, maxFaults, maxMid, chanIdx, retry_count,
                 messages_data, pos, message_count, cur, sleepFor, media,
                 lake, readerSaw, attempts, nTransient, faults, midFaults,
                 dlCalls, handed, outcome, scrapeLog, saveLog, accepted,
                 started>>

(* ------------------------- the script loader --------------------------- *)
\* load_telegram_messages.py lines 16-18: the lake files glob finds, in
\* any order
JsonFiles == {c \in Channels : lake[c].tag = "file"}

Orders(S) ==
  {o \in [1..Cardinality(S) -> S] :
     \A a, b \in 1..Cardinality(S) : a # b => o[a] # o[b]}

\* load_telegram_messages.py lines 46-56: the row inserted for a message
ScriptRowOf(msg) ==
  [message_id   |-> IF "message_id" \in DOMAIN msg THEN Num(msg.message_id)
                    ELSE None,
   channel_name |-> Get(msg, "channel_name")]

\* load_telegram_messages.py lines 41-45: INSERT ... ON CONFLICT
\* (message_id) DO NOTHING; message_id is the primary key (line 26)
ScriptInsert(tbl, row) ==
  IF \E r \in tbl : r.message_id = row.message_id THEN tbl ELSE tbl \cup {row}

\* load_telegram_messages.py lines 40-56: the loop over the messages
RECURSIVE ScriptInsertAll(_, _)
ScriptInsertAll(tbl, msgs) ==
  IF msgs = <<>> THEN tbl
  ELSE ScriptInsertAll(ScriptInsert(tbl, ScriptRowOf(Head(msgs))), Tail(msgs))

\* load_telegram_messages.py lines 37-56: the loop over the files
RECURSIVE ScriptLoadFiles(_, _)
ScriptLoadFiles(tbl, order) ==
  IF order = <<>> THEN tbl
  ELSE ScriptLoadFiles(ScriptInsertAll(tbl, lake[Head(order)].recs), Tail(order))

\* json.load raises on a file that is not whole JSON (line 39) and the
\* insert raises on a null primary key (line 41): nothing catches it, and
\* line 57 is not reached
ScriptRaises ==
  \E c \in JsonFiles :
    \/ ~lake[c].complete
    \/ \E k \in 1..Len(lake[c].recs) : "message_id" \notin DOMAIN lake[c].recs[k]

\* load_telegram_messages.py lines 20-59: load_json_to_postgres, run by
\* another process; without the commit of line 57 the table is left as it
\* was
ScriptLoad ==
  /\ Len(loadLog) < MaxLoads
  /\ loadLog' = Append(loadLog, <<"script", lake>>)
  /\ \E order \in Orders(JsonFiles) :
       telegram_messages' =
         IF ScriptRaises THEN telegram_messages
         ELSE ScriptLoadFiles(telegram_messages, order)
  /\ ev' = <<"script_load", "">>
  /\ UNCHANGED <<pc, feedLen, maxFaults, maxMid, chanIdx, retry_count,
                 messages_data, pos, message_count, cur, sleepFor, media,
                 lake, readerSaw, attempts, nTransient, faults, midFaults,
                 dlCalls, handed, outcome, scrapeLog, saveLog, accepted,
                 started>>

(* --------------------------- specifications ---------------------------- *)
Next ==
  \/ Call
  \/ ClientStart
  \/ GetEntity
  \/ IterYield
  \/ DownloadDone
  \/ PaceWake
  \/ IterEnd
  \/ IterRaise
  \/ FloodWake
  \/ BackoffWake
  \/ SaveOpen
  \/ SaveWrite
  \/ SaveClose
  \/ Disconnect

Spec == Init /\ [][Next]_vars

\* one call of scrape_channel, for any of the channels, up to its return;
\* every await of the task completes: the event loop resumes the task when
\* the awaited call or sleep is over
InitScrape == \E j \in 1..Len(TELEGRAM_CHANNELS) : InitFor(j)

NextScrape ==
  \/ Call
  \/ ClientStart
  \/ GetEntity
  \/ IterYield
  \/ DownloadDone
  \/ PaceWake
  \/ IterEnd
  \/ IterRaise
  \/ FloodWake
  \/ BackoffWake

SpecScrape == InitScrape /\ [][NextScrape]_vars /\ WF_vars(NextScrape)

\* the run together with the loader reading the lake
NextRead == Next \/ ReaderRead

SpecRead == Init /\ [][NextRead]_vars

\* the task is cancelled while suspended: CancelledError is raised at the
\* await; no except clause of scrape_channel, _download_media or main
\* matches it (it is not an Exception), so it leaves main
Cancel ==
  /\ pc \in SuspensionPoints
  /\ pc' = "raised"
  /\ ev' = <<"CancelledError", pc>>
  /\ UNCHANGED <<feedLen, maxFaults, maxMid, chanIdx, retry_count,
                 messages_data, pos, message_count, cur, sleepFor, media,
                 lake, readerSaw, telegram_messages, loadLog, started,
                 attempts, nTransient, faults, midFaults, dlCalls, handed,
                 outcome, scrapeLog, saveLog, accepted>>

NextCancel == Next \/ Cancel

SpecCancel == Init /\ [][NextCancel]_vars

\* the run together with the loader loading lake files into the table
NextLoad == Next \/ LoadFile

SpecLoad == Init /\ [][NextLoad]_vars

\* the run together with the script loader
NextScript == Next \/ ScriptLoad

SpecScript == Init /\ [][NextScript]_vars

(* ------------------------------ properties ----------------------------- *)
Ch(j) == TELEGRAM_CHANNELS[j]
IdsOf(recs) == [i \in 1..Len(recs) |-> recs[i].message_id]
FeedIds(j) ==
  LET f == IterMessages(j, feedLen, Limit) IN [i \in 1..Len(f) |-> f[i].id]

RECURSIVE IsSubSeq(_, _)
IsSubSeq(s, t) ==
  IF s = <<>> THEN TRUE
  ELSE IF t = <<>> THEN FALSE
  ELSE IF Head(s) = Head(t) THEN IsSubSeq(Tail(s), Tail(t))
  ELSE IsSubSeq(s, Tail(t))

\* the path _download_media computes for message i of the j-th channel
FileOf(j, i) ==
  IF IsDownloadable(RawMessage(j, i).media)
  THEN MediaPath(RawMessage(j, i), Ch(j))
  ELSE None

PermanentKinds == {"ChannelPrivateError", "UsernameNotOccupiedError"}
AfterReturn == {"returned", "writing", "call", "done"}

\* C1: a rate-limit signal never changes the retry counter and never uses
\* up the retry budget: the counter counts the errors handled at line 122
\* only, so a scrape that met rate-limit signals only still has its whole
\* budget and goes on to a clean iteration.
C1_RateLimitKeepsBudget == retry_count = nTransient

\* C2: a non-retryable error (channel private, username not occupied) at
\* entity resolution or during iteration ends the scrape at once: the step
\* that handles it returns, with no sleep, no new attempt, the retry counter
\* unchanged and the records accumulated so far as the result (none when
\* it happens at the entity resolution of the first attempt); nothing runs
\* of the scrape after the return.
C2_PermanentStopsAtOnce ==
  [][ /\ (ev'[1] \in PermanentKinds /\ pc \in SuspensionPoints)
         => /\ pc' = "returned"
            /\ pc \in {"entity", "iter"}
            /\ sleepFor' = 0
            /\ retry_count' = retry_count
            /\ attempts' = attempts
            /\ messages_data' = messages_data
            /\ messages_data' = accepted'
            /\ (pc = "entity" /\ attempts = 1 => messages_data' = <<>>)
      /\ (pc \in {"returned", "writing"})
         => /\ attempts' = attempts
            /\ retry_count' = retry_count
            /\ sleepFor' = 0
            /\ pc' \in {"returned", "writing", "call"}
    ]_vars

C2_Witness ==
  /\ pc = "returned"
  /\ ev = <<"ChannelPrivateError", "iter">>
  /\ retry_count > 0
  /\ messages_data # <<>>

\* C3: when every attempt of a scrape ends in a transient error, the scrape
\* makes exactly max_retries attempts: before the last one it is in its
\* backoff sleep, after it scrape_channel has returned (not raised) the
\* records collected before the failures.
C3_ExhaustsAfterMaxRetries ==
  /\ attempts <= max_retries
  /\ (attempts > 0 /\ nTransient = attempts)
       => IF attempts < max_retries
          THEN pc = "backoff"
          ELSE /\ pc \in AfterReturn
               /\ retry_count = max_retries
               /\ messages_data = accepted

C3_Witness ==
  /\ pc = "returned"
  /\ nTransient = max_retries
  /\ attempts = max_retries
  /\ messages_data # <<>>

\* C4: every record appended during any attempt of a scrape is in the
\* sequence scrape_channel returns, in the order of the appends, and that
\* sequence is what main hands to save_to_json.
C4_PartialResultsKept ==
  /\ pc \in {"returned", "writing"} => messages_data = accepted
  /\ pc = "writing" => handed[channel] = List(accepted)

C4_Witness ==
  /\ pc = "returned"
  /\ outcome[channel] = "exhausted"
  /\ nTransient < retry_count
  /\ nTransient > 0
  /\ Len(accepted) >= 2

C6_ReaderNeverTorn == readerSaw # "torn"

\* C7: when the task is cancelled at a suspension point of a scrape, the
\* records accumulated for the channel have been handed to save_to_json
\* when the run is over.
C7_CancelFlushes ==
  (pc = "raised" /\ messages_data # <<>>) => handed[channel] = List(messages_data)

\* C8: once the media file of a message is on disk, client.download_media
\* is not invoked for that message again, and a fetch that finds the file
\* gives its path to the record; a download that succeeds creates the file,
\* so that successful downloads of a message happen at most once.
C8_MediaFetchedOnce ==
  [][ /\ \A j \in 1..Len(TELEGRAM_CHANNELS) : \A i \in Ids :
           dlCalls'[Ch(j)][i] # dlCalls[Ch(j)][i] => FileOf(j, i) \notin media
      /\ (ev'[1] = "exists" /\ pc = "iter")
         => /\ MediaPath(feed[pos'], channel) \in media
            /\ media' = media
            /\ pc' # "media"
            /\ ev'[2] = "appended"
               => messages_data'[Len(messages_data')].media_path
                    = MediaPath(feed[pos'], channel)
      /\ (ev'[1] = "downloaded" /\ pc = "media")
         => /\ MediaPath(feed[pos], channel) \in media'
            /\ dlCalls[channel][feed[pos].id] >= 1
    ]_vars

C8_Witness ==
  /\ ev = <<"exists", "appended">>
  /\ dlCalls[channel][feed[pos].id] = 1
  /\ Len(SelectSeq(messages_data,
                   LAMBDA r : r.media_path = MediaPath(feed[pos], channel))) >= 2

\* C9: the sequence scrape_channel returns, and the lake file written from
\* it, is a subsequence of the provider's order of the channel's messages.
C9_ProviderOrderKept ==
  /\ pc = "returned" => IsSubSeq(IdsOf(messages_data), FeedIds(chanIdx))
  /\ \A j \in 1..Len(TELEGRAM_CHANNELS) :
       (handed[Ch(j)] # None /\ lake[Ch(j)].complete)
         => IsSubSeq(IdsOf(lake[Ch(j)].recs), FeedIds(j))

\* C10: main calls scrape_channel and then save_to_json once for every
\* configured channel, in the order of the list, whatever the outcome of
\* the scrapes of the earlier channels: no outcome of a scrape ends main by
\* an exception, main ends only after the last channel is saved, and the
\* lake file of a channel that was saved is left as it was written.
C10_EveryChannelScrapedAndSaved ==
  [][ /\ pc' # "raised"
      /\ scrapeLog' = SubSeq(TELEGRAM_CHANNELS, 1, Len(scrapeLog'))
      /\ saveLog' = SubSeq(TELEGRAM_CHANNELS, 1, Len(saveLog'))
      /\ Len(scrapeLog') = (IF pc' \in {"call", "done"} THEN chanIdx' - 1 ELSE chanIdx')
      /\ Len(saveLog') = (IF pc' \in {"call", "done", "writing"} THEN Len(scrapeLog')
                          ELSE Len(scrapeLog') - 1)
      /\ pc' = "returned"
         => outcome'[Ch(chanIdx')] \in {"success", "permanent", "exhausted"}
      /\ pc' = "done" => saveLog' = TELEGRAM_CHANNELS
      /\ \A j \in 1..Len(TELEGRAM_CHANNELS) :
           j < chanIdx => /\ lake[Ch(j)] = File(handed[Ch(j)].v, TRUE)
                          /\ lake'[Ch(j)] = lake[Ch(j)]
    ]_vars

C10_Witness ==
  /\ pc = "done"
  /\ outcome[Ch(1)] = "exhausted"
  /\ outcome[Ch(2)] = "success"
  /\ lake[Ch(1)].complete
  /\ lake[Ch(2)].complete
  /\ lake[Ch(1)].recs # <<>>
  /\ lake[Ch(2)].recs # <<>>

\* the text of a raw message is absent, empty or whitespace-only
RawBlank(message) ==
  \/ message.text = None
  \/ message.text.tag = "str" /\ \A k \in 1..Len(message.text.s) : IsSpace(message.text.s[k])

\* C11: when client.start fails on every attempt of a scrape, the failure
\* reaches the caller of the run as an error: the run does not go on as
\* after a normal return of scrape_channel.
C11_FatalSetupSurfaced ==
  (~started /\ nTransient = max_retries) => pc = "raised"

\* C12: a raw message whose text is absent, empty or whitespace-only has no
\* record in the sequence of the scrape; the step that excludes it changes
\* neither the retry counter nor the number of attempts, starts no sleep and
\* goes on with the iteration; the filter applied to the sequence of the
\* scrape leaves it as it is.
C12_EmptyTextExcluded ==
  [][ /\ (ev'[2] = "empty" /\ pc \in {"iter", "media"})
         => /\ RawBlank(feed[pos'])
            /\ messages_data' = messages_data
            /\ retry_count' = retry_count
            /\ attempts' = attempts
            /\ outcome' = outcome
            /\ pc' = "iter"
            /\ sleepFor' = 0
      /\ pc' \in SuspensionPoints \cup {"returned"}
         => \A k \in 1..Len(messages_data') :
              ~RawBlank(RawMessage(chanIdx', messages_data'[k].message_id))
      /\ EmptyTextFilter(messages_data') = messages_data'
    ]_vars

C12_Witness ==
  /\ ev = <<"yield", "empty">>
  /\ feed[pos].text = Str(<<" ">>)
  /\ messages_data # <<>>

\* C13: in every record of the sequence of a scrape has_media is true
\* exactly when media_type is not none, and a record whose has_media is
\* false has media_type none and no media_path.
C13_RecordShape ==
  \A k \in 1..Len(messages_data) :
    LET r == messages_data[k]
    IN  /\ r.has_media.b <=> r.media_type # None
        /\ ~r.has_media.b => (r.media_type = None /\ r.media_path = Missing)

C13_Witness ==
  /\ pc = "returned"
  /\ \E k \in 1..Len(messages_data) : ~messages_data[k].has_media.b
  /\ \E k \in 1..Len(messages_data) : messages_data[k].media_type = Str("other")
  /\ \E k \in 1..Len(messages_data) : messages_data[k].media_type = Str("photo")

\* C14: a rate-limit signal that carries the wait N suspends the scrape
\* once, for N seconds: the step after the sleep starts the next attempt or
\* ends the loop, and no backoff sleep is added to the wait or takes its
\* place.
C14_FloodWaitSleepsExactly ==
  [][ /\ (ev'[1] = "FloodWaitError" /\ pc \in SuspensionPoints)
         => /\ pc' = "floodsleep"
            /\ sleepFor' = ev'[3]
      /\ pc = "floodsleep"
         => /\ ev' = <<"woke", "floodsleep">>
            /\ sleepFor' = 0
            /\ pc' \in {"start", "returned"}
    ]_vars

C14_Witness ==
  /\ ev = <<"woke", "floodsleep">>
  /\ pc = "start"
  /\ nTransient > 0

\* C15: a run of the loader on a lake file of this run that the loader was
\* already run on leaves the table with the rows it had.
C15_LoadIdempotent ==
  [][ (/\ loadLog' # loadLog
       /\ handed[loadLog'[Len(loadLog')][1]] # None
       /\ \E k \in 1..Len(loadLog) : loadLog[k] = loadLog'[Len(loadLog')])
      => telegram_messages' = telegram_messages
    ]_vars

\* C16: the sequence of a scrape holds at most one record for every
\* (channel_name, message_id).
C16_NoDuplicateKeys ==
  \A a, b \in 1..Len(messages_data) :
    (/\ messages_data[a].message_id = messages_data[b].message_id
     /\ messages_data[a].channel_name = messages_data[b].channel_name)
    => a = b

C18_DownloadFailureKeepsMessage ==
  [][ (ev'[1] = "download_failed" /\ pc = "media")
      => /\ pc' \in {"iter", "pace"}
         /\ pos' = pos
         /\ retry_count' = retry_count
         /\ attempts' = attempts
         /\ outcome' = outcome
         /\ media' = media
         /\ IF RawBlank(feed[pos])
            THEN messages_data' = messages_data
            ELSE /\ Len(messages_data') = Len(messages_data) + 1
                 /\ SubSeq(messages_data', 1, Len(messages_data)) = messages_data
                 /\ LET r == messages_data'[Len(messages_data')]
                    IN  /\ r.message_id = feed[pos].id
                        /\ r.has_media = Bool(TRUE)
                        /\ r.media_path = None
    ]_vars

C18_Witness ==
  /\ ev = <<"download_failed", "appended">>
  /\ messages_data[Len(messages_data)].media_path = None
  /\ messages_data[Len(messages_data)].media_type = Str("photo")

\* C19: the record of a message that has a photo or a document and no date
\* has a media_path whose date segment is 'unknown', and the file of that
\* path is on disk.
C19_UndatedMediaPath ==
  pc \in SuspensionPoints \cup {"returned"}
  => \A k \in 1..Len(messages_data) :
       LET r == messages_data[k]
           m == RawMessage(chanIdx, r.message_id)
       IN  (IsDownloadable(m.media) /\ m.date = None)
           => /\ r.media_path.tag = "str"
              /\ r.media_path.s[1][3] = "unknown"
              /\ r.media_path \in media

\* C20: the scrape is in its pacing sleep only after a 10th, 20th, ...
\* message of the attempt was processed, and the message after every 10th
\* processed message is fetched only after a pacing sleep.
C20_PaceEveryTenProcessed ==
  /\ pc = "pace" => (pos > 0 /\ pos % PaceEvery = 0)
  /\ (pc = "iter" /\ pos > 0 /\ pos % PaceEvery = 0) => ev = <<"woke", "pace">>

\* C21: in every scrape the retry counter stays within 0..max_retries and at
\* most max_retries attempts are started, whatever rate-limit signals,
\* transient errors and errors of single messages it meets, and a scrape
\* that is under way returns.
C21_BoundedAttempts ==
  /\ [](retry_count \in 0..max_retries /\ attempts <= max_retries)
  /\ (pc \in SuspensionPoints) ~> (pc = "returned")

C21_Witness ==
  /\ pc = "returned"
  /\ attempts = max_retries
  /\ retry_count = max_retries
  /\ nTransient \in 1..(max_retries - 1)
  /\ midFaults > 0

\* C22: after a run of the script loader that processed the lake files,
\* every (channel_name, message_id) of a record of those files has a row in
\* the table, also when two channels hold messages with the same
\* message_id.
C22_NoCrossChannelLoss ==
  [][ (ev'[1] = "script_load" /\ ~ScriptRaises)
      => \A c \in JsonFiles : \A k \in 1..Len(lake[c].recs) :
           \E row \in telegram_messages' :
             /\ row.message_id = Num(lake[c].recs[k].message_id)
             /\ row.channel_name = lake[c].recs[k].channel_name
    ]_vars
====
